---- MODULE Spec2Model ----
(***************************************************************************)
(* Host side of the LDPC encoder client (src/src/main.cpp): tag            *)
(* synchronisation, length send, parameter receive and block transfer over *)
(* Serial2, driven by handleEncoding.                                      *)
(*                                                                         *)
(* Time is kept as `elapsed' = millis() - startTime of the wait loop that  *)
(* is running.  A poll that reads a byte costs its delay(); a run of       *)
(* consecutive empty polls is taken as one step of IdleWait milliseconds.  *)
(***************************************************************************)
EXTENDS Integers, Sequences, FiniteSets, TLC

\* ---------------------------------------------------------------- constants
LDPC_TAG_0 == 222
LDPC_TAG_1 == 173
LDPC_TAG_2 == 192
LDPC_TAG_3 == 222
MAX_MESSAGE_LENGTH == 1024
ENCODED_CAPACITY == 2048
SyncTimeout == 5000
ParamTimeout == 3000
BlockTimeout == 3000
TagPollDelay == 1
BlockPollDelay == 1

INPUT_TEXT == 1
INPUT_HEX == 2
INPUT_HEX_MANUAL == 3

\* ------------------------------------------------------------------- bounds
IdleWait == 2500        \* milliseconds spent in one run of empty polls
MaxTagBytes == 5        \* bytes the device sends before/as its tag
MaxParamBytes == 5      \* bytes the device sends as parameter reply
MaxReplyBytes == 4      \* bytes the device sends as block replies
MaxRx == 5              \* bytes pending in the Serial2 receive queue
UBBlocks == 1           \* largest block count a division by zero yields

TagAlphabet == {LDPC_TAG_0, LDPC_TAG_1, LDPC_TAG_2}
ParamAlphabet == {0, 12}
ReplyAlphabet == {90, 165}
ManualBits == {0, 12, 30}
TextInputs == {<<>>, <<65>>}
HexInputs == {<<>>, <<1>>, <<1, 2, 3, 4, 5, 6>>}

VARIABLES
  pc,                   \* position of the host program
  err,                  \* which phase failed ("none" while none did)
  lastInputMode,
  K, N, message_bits, message_buffer, encoded_buffer,
  mode, manual_message_bits,
  tagIndex, elapsed,
  C, block, receivedBytes,
  rx,                   \* Serial2 receive queue (device -> host)
  tx,                   \* bytes written to Serial2 in this session
  tagRead,              \* bytes waitForTag has read (until the next write)
  replyLog,             \* bytes the block loop has read, in arrival order
  dataReads,            \* indices at which sendMessageData read data[]
  devStage, devTag, devCount,      \* the device: stage, tag bytes and
                                   \* number of later bytes sent so far
  aBits, aK, aN, aC, aSize, aDone, \* arguments/results of the arithmetic
  staleRx,              \* bytes at the head of rx that were queued before
                        \* the length field was written
  reported,             \* <<totalEncodedBytes>> once the completion report
                        \* is printed, <<>> before
  shown                 \* <<what "show last results" displayed>>, <<>> if
                        \* it was not asked for since the last input

vars == <<pc, err, lastInputMode, K, N, message_bits, message_buffer,
          encoded_buffer, mode, manual_message_bits, tagIndex, elapsed,
          C, block, receivedBytes, rx, tx, tagRead, replyLog, dataReads,
          devStage, devTag, devCount, aBits, aK, aN, aC, aSize, aDone,
          staleRx, reported, shown>>

hostGlobals == <<K, N, message_bits, message_buffer, encoded_buffer, lastInputMode>>
hostLocals == <<mode, manual_message_bits, tagIndex, C, block, receivedBytes>>
deviceVars == <<devStage, devTag, devCount>>
arithVars == <<aBits, aK, aN, aC, aSize, aDone>>
auxVars == <<staleRx, reported, shown>>

\* ------------------------------------------------------------------ helpers
U16(x) == x % 65536
U8(x) == x % 256

TagSeq == <<LDPC_TAG_0, LDPC_TAG_1, LDPC_TAG_2, LDPC_TAG_3>>

Last4(s) == SubSeq(s, Len(s) - 3, Len(s))

EndsWithTag(s) == Len(s) >= 4 /\ Last4(s) = TagSeq

ContainsTag(s) == \E i \in 1..(Len(s) - 3) : SubSeq(s, i, i + 3) = TagSeq

\* value of an array cell; globals are zero-initialised
CellAt(buf, i) == IF i \in DOMAIN buf THEN buf[i] ELSE 0

\* textToBits: copies min(length, 1023) characters, returns 8 * that
textToBits_count(text) ==
  IF Len(text) < MAX_MESSAGE_LENGTH - 1 THEN Len(text) ELSE MAX_MESSAGE_LENGTH - 1

textToBits_byte(text, i) == U8(text[i + 1])

\* hexToBits: one byte per complete pair of hex digits, a trailing single
\* digit is dropped
hexToBits_count(hex) ==
  IF Len(hex) \div 2 < MAX_MESSAGE_LENGTH THEN Len(hex) \div 2 ELSE MAX_MESSAGE_LENGTH

hexToBits_byte(hex, i) == U8(hex[2 * i + 1] * 16 + hex[2 * i + 2])

\* ---------------------------------------------------------------- waitForTag
\* variant: a byte that breaks the sequence leaves tagIndex as it is
waitForTag_step_keep(idx, b) ==
  IF b = LDPC_TAG_0 /\ idx = 0 THEN 1
  ELSE IF b = LDPC_TAG_1 /\ idx = 1 THEN 2
  ELSE IF b = LDPC_TAG_2 /\ idx = 2 THEN 3
  ELSE IF b = LDPC_TAG_3 /\ idx = 3 THEN 4
  ELSE idx

\* variant: a byte that breaks the sequence is tested against tag byte 0
waitForTag_step_restart(idx, b) ==
  IF b = LDPC_TAG_0 /\ idx = 0 THEN 1
  ELSE IF b = LDPC_TAG_1 /\ idx = 1 THEN 2
  ELSE IF b = LDPC_TAG_2 /\ idx = 2 THEN 3
  ELSE IF b = LDPC_TAG_3 /\ idx = 3 THEN 4
  ELSE IF b = LDPC_TAG_0 THEN 1
  ELSE 0

\* the if/else-if chain of the loop body: the new tagIndex, 4 = return true
waitForTag_step(idx, b) ==
  IF b = LDPC_TAG_0 /\ idx = 0 THEN 1
  ELSE IF b = LDPC_TAG_1 /\ idx = 1 THEN 2
  ELSE IF b = LDPC_TAG_2 /\ idx = 2 THEN 3
  ELSE IF b = LDPC_TAG_3 /\ idx = 3 THEN 4
  ELSE 0

\* variant: the loop gives up after half the window
waitForTag_cond_short(e) == e < SyncTimeout \div 2

waitForTag_cond(e) == e < SyncTimeout

Init ==
  /\ pc = "idle" /\ err = "none"
  /\ lastInputMode = INPUT_TEXT
  /\ K = 0 /\ N = 0 /\ message_bits = 0
  /\ message_buffer = <<>> /\ encoded_buffer = <<>>
  /\ mode = INPUT_TEXT /\ manual_message_bits = 0
  /\ tagIndex = 0 /\ elapsed = 0
  /\ C = 0 /\ block = 0 /\ receivedBytes = 0
  /\ rx = <<>> /\ tx = <<>> /\ tagRead = <<>> /\ replyLog = <<>>
  /\ dataReads = {}
  /\ devStage = "sync" /\ devTag = <<>> /\ devCount = 0
  /\ aBits = 0 /\ aK = 1 /\ aN = 1 /\ aC = 0 /\ aSize = 0 /\ aDone = FALSE
  /\ staleRx = 0 /\ reported = <<>> /\ shown = <<>>

\* handleEncoding up to the call of waitForTag, with a non-empty input line
handleEncoding_start(m, man, input) ==
  /\ pc = "idle"
  /\ Len(input) > 0
  /\ lastInputMode' = m
  /\ mode' = m
  /\ manual_message_bits' = IF m = INPUT_HEX_MANUAL THEN U16(man) ELSE manual_message_bits
  /\ LET n == IF m = INPUT_TEXT THEN textToBits_count(input) ELSE hexToBits_count(input)
         byte(i) == IF m = INPUT_TEXT THEN textToBits_byte(input, i) ELSE hexToBits_byte(input, i)
     IN /\ message_bits' = U16(n * 8)
        /\ message_buffer' = [i \in (DOMAIN message_buffer) \cup (0..(n - 1)) |->
                                IF i < n THEN byte(i) ELSE message_buffer[i]]
  /\ pc' = "tag" /\ tagIndex' = 0 /\ elapsed' = 0
  /\ shown' = <<>>
  /\ UNCHANGED <<err, K, N, encoded_buffer, C, block, receivedBytes, rx, tx,
                 tagRead, replyLog, dataReads, deviceVars, arithVars,
                 staleRx, reported>>

\* handleEncoding with an empty input line: "No message entered!"
handleEncoding_empty(m, man) ==
  /\ pc = "idle"
  /\ lastInputMode' = m
  /\ mode' = m
  /\ manual_message_bits' = IF m = INPUT_HEX_MANUAL THEN U16(man) ELSE manual_message_bits
  /\ shown' = <<>>
  /\ UNCHANGED <<pc, err, K, N, message_bits, message_buffer, encoded_buffer,
                 tagIndex, elapsed, C, block, receivedBytes, rx, tx, tagRead,
                 replyLog, dataReads, deviceVars, arithVars, staleRx, reported>>

\* one loop iteration of waitForTag with Serial2.available() != 0
waitForTag_read ==
  /\ pc = "tag" /\ waitForTag_cond(elapsed) /\ rx # <<>>
  /\ LET idx == waitForTag_step(tagIndex, Head(rx))
     IN IF idx = 4
        THEN /\ pc' = "len" /\ UNCHANGED <<tagIndex, elapsed>>
        ELSE /\ tagIndex' = idx /\ elapsed' = elapsed + TagPollDelay /\ pc' = pc
  /\ rx' = Tail(rx)
  /\ tagRead' = Append(tagRead, Head(rx))
  /\ UNCHANGED <<err, hostGlobals, mode, manual_message_bits, C, block,
                 receivedBytes, tx, replyLog, dataReads, deviceVars, arithVars, auxVars>>

\* loop iterations of waitForTag with nothing available
waitForTag_idle ==
  /\ pc = "tag" /\ waitForTag_cond(elapsed) /\ rx = <<>>
  /\ elapsed' = elapsed + IdleWait
  /\ UNCHANGED <<pc, err, hostGlobals, hostLocals, rx, tx, tagRead, replyLog,
                 dataReads, deviceVars, arithVars, auxVars>>

\* loop exit of waitForTag; handleEncoding returns
waitForTag_timeout ==
  /\ pc = "tag" /\ ~waitForTag_cond(elapsed)
  /\ pc' = "failed" /\ err' = "SyncTimeout"
  /\ UNCHANGED <<hostGlobals, hostLocals, elapsed, rx, tx, tagRead, replyLog,
                 dataReads, deviceVars, arithVars, auxVars>>

\* ------------------------------------------------------------------- device
\* the device sends noise or tag bytes until it has sent the tag, then its
\* parameter reply, then block replies; it does not wait for the host
Device_tag(b) ==
  /\ devStage = "sync"
  /\ Len(devTag) < MaxTagBytes /\ ~EndsWithTag(devTag)
  /\ Len(rx) < MaxRx
  /\ pc \notin {"completed", "failed", "crashed"}
  /\ devTag' = Append(devTag, b)
  /\ rx' = Append(rx, b)
  /\ UNCHANGED <<pc, err, hostGlobals, hostLocals, elapsed, tx, tagRead,
                 replyLog, dataReads, devStage, devCount, arithVars, auxVars>>

Device_param(b) ==
  /\ \/ /\ devStage = "sync" /\ EndsWithTag(devTag)
        /\ devStage' = "params" /\ devTag' = <<>> /\ devCount' = 1
     \/ /\ devStage = "params" /\ devCount < MaxParamBytes
        /\ devCount' = devCount + 1 /\ UNCHANGED <<devStage, devTag>>
  /\ Len(rx) < MaxRx
  /\ pc \notin {"completed", "failed", "crashed"}
  /\ rx' = Append(rx, b)
  /\ UNCHANGED <<pc, err, hostGlobals, hostLocals, elapsed, tx, tagRead,
                 replyLog, dataReads, arithVars, auxVars>>

Device_reply(b) ==
  /\ \/ /\ devStage = "params" /\ devCount >= 4
        /\ devStage' = "reply" /\ devCount' = 1
     \/ /\ devStage = "reply" /\ devCount < MaxReplyBytes
        /\ devCount' = devCount + 1 /\ UNCHANGED devStage
  /\ Len(rx) < MaxRx
  /\ pc \notin {"completed", "failed", "crashed"}
  /\ rx' = Append(rx, b)
  /\ UNCHANGED <<pc, err, hostGlobals, hostLocals, elapsed, tx, tagRead,
                 replyLog, dataReads, devTag, arithVars, auxVars>>

\* --------------------------------------------------------- sendMessageLength
\* variant: low byte first
sendMessageLength_bytes_swapped(bits) == <<bits % 256, U8(bits \div 256)>>

\* the two bytes written: (uint8_t)(bits >> 8), (uint8_t)(bits & 0xFF)
sendMessageLength_bytes(bits) == <<U8(bits \div 256), bits % 256>>

\* the length handleEncoding passes to sendMessageLength
handleEncoding_lengthArg ==
  IF mode = INPUT_HEX_MANUAL THEN manual_message_bits ELSE message_bits

\* sendMessageLength returns true; handleEncoding goes on to receiveParameters
sendMessageLength ==
  /\ pc = "len"
  /\ tx' = tx \o sendMessageLength_bytes(handleEncoding_lengthArg)
  /\ pc' = "params" /\ elapsed' = 0
  /\ tagRead' = <<>>
  /\ staleRx' = Len(rx)
  /\ UNCHANGED <<err, hostGlobals, hostLocals, rx, replyLog,
                 dataReads, deviceVars, arithVars, reported, shown>>

\* --------------------------------------------------------- receiveParameters
receiveParameters_cond(e) == e < ParamTimeout

\* variant: the two bytes combined low byte first
receiveParameters_word_swapped(hi, lo) == U16(lo * 256) + hi

\* ((uint16_t)hi << 8) | (uint16_t)lo
receiveParameters_word(hi, lo) == U16(hi * 256) + lo

receiveParameters_need == 4

receiveParameters_read ==
  /\ pc = "params" /\ receiveParameters_cond(elapsed)
  /\ Len(rx) >= 4
  /\ K' = receiveParameters_word(rx[1], rx[2])
  /\ N' = receiveParameters_word(rx[3], rx[4])
  /\ rx' = SubSeq(rx, receiveParameters_need + 1, Len(rx))
  /\ pc' = "data"
  /\ staleRx' = 0
  /\ UNCHANGED <<err, message_bits, message_buffer, encoded_buffer,
                 lastInputMode, hostLocals, elapsed, tx, tagRead, replyLog,
                 dataReads, deviceVars, arithVars, reported, shown>>

receiveParameters_idle ==
  /\ pc = "params" /\ receiveParameters_cond(elapsed)
  /\ Len(rx) < 4
  /\ elapsed' = elapsed + IdleWait
  /\ UNCHANGED <<pc, err, hostGlobals, hostLocals, rx, tx, tagRead, replyLog,
                 dataReads, deviceVars, arithVars, auxVars>>

\* variant: handleEncoding goes on after the parameter timeout
receiveParameters_timeout_ignored ==
  /\ pc = "params" /\ ~receiveParameters_cond(elapsed)
  /\ pc' = "data" /\ err' = "ParamTimeout"
  /\ UNCHANGED <<hostGlobals, hostLocals, elapsed, rx, tx, tagRead, replyLog,
                 dataReads, deviceVars, arithVars, auxVars>>

receiveParameters_timeout ==
  /\ pc = "params" /\ ~receiveParameters_cond(elapsed)
  /\ pc' = "failed" /\ err' = "ParamTimeout"
  /\ UNCHANGED <<hostGlobals, hostLocals, elapsed, rx, tx, tagRead, replyLog,
                 dataReads, deviceVars, arithVars, auxVars>>

\* ----------------------------------------------------------- sendMessageData
K_bytes == U16((K + 7) \div 8)
N_bytes == U16((N + 7) \div 8)

\* arguments handleEncoding passes
sendMessageData_messageBits == message_bits
sendMessageData_calculationBits ==
  IF mode = INPUT_HEX_MANUAL THEN manual_message_bits ELSE 0

bitsForCalculation ==
  IF sendMessageData_calculationBits > 0
  THEN sendMessageData_calculationBits ELSE sendMessageData_messageBits

\* uint16_t C = (bitsForCalculation + K - 1) / K, for k # 0
blockCount(bits, k) == U16((bits + k - 1) \div k)

\* entry of sendMessageData; the division is undefined for K = 0
sendMessageData_begin ==
  /\ pc = "data"
  /\ \/ /\ K # 0
        /\ C' = blockCount(bitsForCalculation, K)
        /\ pc' = "send"
     \/ /\ K = 0
        /\ \E c \in 0..UBBlocks : C' = c
        /\ pc' = "send"
     \/ /\ K = 0
        /\ pc' = "crashed" /\ C' = C
  /\ block' = 0 /\ receivedBytes' = 0
  /\ UNCHANGED <<err, hostGlobals, mode, manual_message_bits, tagIndex,
                 elapsed, rx, tx, tagRead, replyLog, dataReads, deviceVars,
                 arithVars, auxVars>>

\* uint16_t dataIndex = block * K_bytes + i
dataIndex(b, i) == U16(b * K_bytes + i)

dataLimit(messageBits) == (messageBits + 7) \div 8

\* variant: the padding test uses the calculation length
readsData_calc(b, i) == dataIndex(b, i) < dataLimit(bitsForCalculation)

\* does byte i of block b come from data[]?
readsData(b, i) == dataIndex(b, i) < dataLimit(sendMessageData_messageBits)

byteToSend(b, i) ==
  IF readsData(b, i) THEN CellAt(message_buffer, dataIndex(b, i)) ELSE 0

\* the write loop of one block, then the start of its reply wait
sendMessageData_block ==
  /\ pc = "send" /\ block < C
  /\ tx' = tx \o [j \in 1..K_bytes |-> byteToSend(block, j - 1)]
  /\ dataReads' = dataReads \cup
        {dataIndex(block, i) : i \in {j \in 0..(K_bytes - 1) : readsData(block, j)}}
  /\ receivedBytes' = 0 /\ elapsed' = 0
  /\ pc' = "recv"
  /\ UNCHANGED <<err, hostGlobals, mode, manual_message_bits, tagIndex, C,
                 block, rx, tagRead, replyLog, deviceVars, arithVars, auxVars>>

sendMessageData_cond(r, e) == r < N_bytes /\ e < BlockTimeout

\* variant: the block offset is not scaled by the block size
encodedIndex_unscaled(b, r) == b + r

encodedIndex(b, r) == b * N_bytes + r

\* reply loop iteration with a byte available
sendMessageData_recv ==
  /\ pc = "recv" /\ sendMessageData_cond(receivedBytes, elapsed)
  /\ rx # <<>>
  /\ IF encodedIndex(block, receivedBytes) < ENCODED_CAPACITY
     THEN /\ encoded_buffer' =
                (encodedIndex(block, receivedBytes) :> Head(rx)) @@ encoded_buffer
          /\ pc' = pc
     ELSE /\ pc' \in {"crashed", pc} /\ UNCHANGED encoded_buffer
  /\ receivedBytes' = receivedBytes + 1
  /\ replyLog' = Append(replyLog, Head(rx))
  /\ rx' = Tail(rx)
  /\ elapsed' = elapsed + BlockPollDelay
  /\ UNCHANGED <<err, K, N, message_bits, message_buffer, lastInputMode, mode,
                 manual_message_bits, tagIndex, C, block, tx, tagRead,
                 dataReads, deviceVars, arithVars, auxVars>>

\* reply loop iterations with nothing available
sendMessageData_idle ==
  /\ pc = "recv" /\ sendMessageData_cond(receivedBytes, elapsed)
  /\ rx = <<>>
  /\ elapsed' = elapsed + IdleWait
  /\ UNCHANGED <<pc, err, hostGlobals, hostLocals, rx, tx, tagRead, replyLog,
                 dataReads, deviceVars, arithVars, auxVars>>

\* variant: a block whose reply timed out is skipped, not fatal
sendMessageData_timeout_skip ==
  /\ pc = "recv" /\ ~sendMessageData_cond(receivedBytes, elapsed)
  /\ receivedBytes < N_bytes
  /\ block' = U16(block + 1)
  /\ pc' = "send"
  /\ UNCHANGED <<err, hostGlobals, mode, manual_message_bits, tagIndex, C,
                 receivedBytes, elapsed, rx, tx, tagRead, replyLog, dataReads,
                 deviceVars, arithVars, auxVars>>

\* after the reply loop: timeout of this block ...
sendMessageData_timeout ==
  /\ pc = "recv" /\ ~sendMessageData_cond(receivedBytes, elapsed)
  /\ receivedBytes < N_bytes
  /\ pc' = "failed" /\ err' = "BlockTimeout"
  /\ UNCHANGED <<hostGlobals, hostLocals, elapsed, rx, tx, tagRead, replyLog,
                 dataReads, deviceVars, arithVars, auxVars>>

\* ... or on to the next block
sendMessageData_next ==
  /\ pc = "recv" /\ ~sendMessageData_cond(receivedBytes, elapsed)
  /\ ~(receivedBytes < N_bytes)
  /\ block' = U16(block + 1)
  /\ pc' = "send"
  /\ UNCHANGED <<err, hostGlobals, mode, manual_message_bits, tagIndex, C,
                 receivedBytes, elapsed, rx, tx, tagRead, replyLog, dataReads,
                 deviceVars, arithVars, auxVars>>

\* loop end: sendMessageData returns true, handleEncoding reports
sendMessageData_done ==
  /\ pc = "send" /\ ~(block < C)
  /\ pc' = "completed"
  /\ UNCHANGED <<err, hostGlobals, hostLocals, elapsed, rx, tx, tagRead,
                 replyLog, dataReads, deviceVars, arithVars, auxVars>>

\* the block count handleEncoding prints: an int expression, no truncation
handleEncoding_blocks(bits, k) == (bits + k - 1) \div k

\* uint16_t totalEncodedBytes = ((bits + K - 1) / K) * ((N + 7) / 8)
handleEncoding_totalEncodedBytes(bits, k, n) ==
  U16(handleEncoding_blocks(bits, k) * ((n + 7) \div 8))

\* uint16_t bitsUsedForCalculation of handleEncoding
handleEncoding_bitsUsedForCalculation ==
  IF mode = INPUT_HEX_MANUAL THEN manual_message_bits ELSE message_bits

\* the report of handleEncoding after sendMessageData returned true; its
\* divisions by K are undefined for K = 0
handleEncoding_report ==
  /\ pc = "completed" /\ reported = <<>>
  /\ \/ /\ K # 0
        /\ reported' = <<handleEncoding_totalEncodedBytes(
                           handleEncoding_bitsUsedForCalculation, K, N)>>
        /\ pc' = pc
     \/ /\ K = 0
        /\ \E v \in 0..UBBlocks : reported' = <<v>>
        /\ pc' = pc
     \/ /\ K = 0
        /\ pc' = "crashed" /\ reported' = reported
  /\ UNCHANGED <<err, hostGlobals, hostLocals, elapsed, rx, tx, tagRead,
                 replyLog, dataReads, deviceVars, arithVars, staleRx, shown>>

\* what case '5' of loop() prints
loop_results ==
  IF K > 0 /\ N > 0 /\ message_bits > 0
  THEN [avail |-> TRUE, K |-> K, N |-> N, message_bits |-> message_bits,
        messageBytes |-> (message_bits + 7) \div 8,
        asHex |-> (lastInputMode = INPUT_HEX),
        totalEncodedBytes |-> handleEncoding_totalEncodedBytes(message_bits, K, N)]
  ELSE [avail |-> FALSE, K |-> 0, N |-> 0, message_bits |-> 0,
        messageBytes |-> 0, asHex |-> FALSE, totalEncodedBytes |-> 0]

\* loop(), choice '5': show last encoding results; handleEncoding is not running
loop_show ==
  /\ \/ pc \in {"idle", "failed"}
     \/ pc = "completed" /\ reported # <<>>
  /\ shown = <<>>
  /\ shown' = <<loop_results>>
  /\ UNCHANGED <<pc, err, hostGlobals, hostLocals, elapsed, rx, tx, tagRead,
                 replyLog, dataReads, deviceVars, arithVars, staleRx, reported>>

Host ==
  \/ waitForTag_read \/ waitForTag_idle \/ waitForTag_timeout
  \/ sendMessageLength
  \/ receiveParameters_read \/ receiveParameters_idle \/ receiveParameters_timeout
  \/ sendMessageData_begin \/ sendMessageData_block \/ sendMessageData_recv
  \/ sendMessageData_idle \/ sendMessageData_timeout \/ sendMessageData_next
  \/ sendMessageData_done
  \/ handleEncoding_report

Next ==
  \/ \E input \in TextInputs : handleEncoding_start(INPUT_TEXT, 0, input)
  \/ \E input \in HexInputs : handleEncoding_start(INPUT_HEX, 0, input)
  \/ \E man \in ManualBits : \E input \in HexInputs :
        handleEncoding_start(INPUT_HEX_MANUAL, man, input)
  \/ \E m \in {INPUT_TEXT, INPUT_HEX} : handleEncoding_empty(m, 0)
  \/ \E man \in ManualBits : handleEncoding_empty(INPUT_HEX_MANUAL, man)
  \/ Host
  \/ loop_show
  \/ \E b \in TagAlphabet : Device_tag(b)
  \/ \E b \in ParamAlphabet : Device_param(b)
  \/ \E b \in ReplyAlphabet : Device_reply(b)

Spec == Init /\ [][Next]_vars

\* ------------------------------------------------- waitForTag on its own
\* handleEncoding has taken a text message and has just called waitForTag
SyncInit ==
  /\ pc = "tag" /\ err = "none"
  /\ lastInputMode = INPUT_TEXT /\ mode = INPUT_TEXT
  /\ K = 0 /\ N = 0 /\ message_bits = 8
  /\ message_buffer = (0 :> 65) /\ encoded_buffer = <<>>
  /\ manual_message_bits = 0
  /\ tagIndex = 0 /\ elapsed = 0
  /\ C = 0 /\ block = 0 /\ receivedBytes = 0
  /\ rx = <<>> /\ tx = <<>> /\ tagRead = <<>> /\ replyLog = <<>>
  /\ dataReads = {}
  /\ devStage = "sync" /\ devTag = <<>> /\ devCount = 0
  /\ aBits = 0 /\ aK = 1 /\ aN = 1 /\ aC = 0 /\ aSize = 0 /\ aDone = FALSE
  /\ staleRx = 0 /\ reported = <<>> /\ shown = <<>>

waitForTag ==
  waitForTag_read \/ waitForTag_idle \/ waitForTag_timeout

SyncNext ==
  \/ waitForTag_read
  \/ waitForTag_idle
  \/ waitForTag_timeout
  \/ \E b \in TagAlphabet : Device_tag(b)

\* the host program keeps running: a poll that can be taken is taken
SyncSpec == SyncInit /\ [][SyncNext]_vars /\ WF_vars(waitForTag)

\* ------------------------------------------- the 16-bit arithmetic on its own
ArithBits == {0, 1, 16, 255, 256, 4660, 65535}
ArithK == {1, 8, 4096, 65535}
ArithN == {1, 8, 8192, 65535}

\* hex-with-manual-length session whose sync has just succeeded, for every
\* manual length of ArithBits, and the arguments of the size arithmetic
ArithInit ==
  /\ pc = "len" /\ err = "none"
  /\ lastInputMode = INPUT_HEX_MANUAL /\ mode = INPUT_HEX_MANUAL
  /\ K = 0 /\ N = 0 /\ message_bits = 8
  /\ message_buffer = (0 :> 18) /\ encoded_buffer = <<>>
  /\ manual_message_bits \in ArithBits
  /\ tagIndex = 3 /\ elapsed = 0
  /\ C = 0 /\ block = 0 /\ receivedBytes = 0
  /\ rx = <<>> /\ tx = <<>> /\ tagRead = TagSeq /\ replyLog = <<>>
  /\ dataReads = {}
  /\ devStage = "sync" /\ devTag = TagSeq /\ devCount = 0
  /\ aBits = manual_message_bits /\ aK \in ArithK /\ aN \in ArithN
  /\ aC = 0 /\ aSize = 0 /\ aDone = FALSE
  /\ staleRx = 0 /\ reported = <<>> /\ shown = <<>>

\* the block count of sendMessageData and the size handleEncoding reports
Arith_blocks ==
  /\ ~aDone
  /\ aC' = blockCount(aBits, aK)
  /\ aSize' = handleEncoding_totalEncodedBytes(aBits, aK, aN)
  /\ aDone' = TRUE
  /\ UNCHANGED <<pc, err, hostGlobals, hostLocals, elapsed, rx, tx, tagRead,
                 replyLog, dataReads, deviceVars, aBits, aK, aN, auxVars>>

ArithNext ==
  \/ sendMessageLength
  \/ Arith_blocks

ArithSpec == ArithInit /\ [][ArithNext]_vars

\* --------------------------------- the reply loop with a device that answers
\* the parameter replies of the device: K = 8 with N = 8 or N = 16392
BufferParams == {<<0, 8, 0, 8>>, <<0, 8, 64, 8>>}

StreamAlphabet == {165}

\* a text session with the message "A", after sendMessageLength; the device
\* has answered the length with its parameters
BufferInit ==
  /\ pc = "params" /\ err = "none"
  /\ lastInputMode = INPUT_TEXT /\ mode = INPUT_TEXT
  /\ K = 0 /\ N = 0 /\ message_bits = 8
  /\ message_buffer = (0 :> 65) /\ encoded_buffer = <<>>
  /\ manual_message_bits = 0
  /\ tagIndex = 4 /\ elapsed = 0
  /\ C = 0 /\ block = 0 /\ receivedBytes = 0
  /\ rx \in BufferParams /\ tx = sendMessageLength_bytes(8)
  /\ tagRead = <<>> /\ replyLog = <<>>
  /\ dataReads = {}
  /\ devStage = "params" /\ devTag = TagSeq /\ devCount = 4
  /\ aBits = 0 /\ aK = 1 /\ aN = 1 /\ aC = 0 /\ aSize = 0 /\ aDone = FALSE
  /\ staleRx = 0 /\ reported = <<>> /\ shown = <<>>

\* the device sends the next byte of the ceil(N/8) bytes it owes for the
\* blocks it was sent
Device_stream(b) ==
  /\ pc = "recv" /\ rx = <<>>
  /\ Len(replyLog) < (block + 1) * N_bytes
  /\ rx' = <<b>>
  /\ devStage' = "reply"
  /\ devCount' = Len(replyLog) + 1
  /\ UNCHANGED <<pc, err, hostGlobals, hostLocals, elapsed, tx, tagRead,
                 replyLog, dataReads, devTag, arithVars, auxVars>>

BufferNext ==
  \/ receiveParameters_read
  \/ sendMessageData_begin
  \/ sendMessageData_block
  \/ sendMessageData_recv
  \/ sendMessageData_idle
  \/ sendMessageData_timeout
  \/ sendMessageData_next
  \/ sendMessageData_done
  \/ \E b \in StreamAlphabet : Device_stream(b)

BufferSpec == BufferInit /\ [][BufferNext]_vars

\* ------------------------------------------------------------------- claims
CeilDiv(a, b) == IF a % b = 0 THEN a \div b ELSE (a \div b) + 1

SyncFailed == pc = "failed" /\ err = "SyncTimeout"

\* C1: every byte stream that contains DE AD C0 DE consecutively and is read
\* within the sync window makes waitForTag return true; so a waitForTag that
\* timed out has not read a stream containing the tag.
SyncComplete == SyncFailed => ~ContainsTag(tagRead)

\* C2: waitForTag returns true only if the last four bytes it read are
\* exactly DE, AD, C0, DE with nothing between them.
SyncSound == pc = "len" => EndsWithTag(tagRead)

SyncSound_witness ==
  /\ pc = "len" /\ Len(tagRead) = 5 /\ tagRead[1] = LDPC_TAG_2

\* C3: with a device that never sends a byte waitForTag returns false, not
\* before 5000 ms have passed since it started, and it does return.
SyncTimesOut ==
  /\ [](SyncFailed => elapsed >= SyncTimeout)
  /\ [](tagRead = <<>> => pc # "len")
  /\ ([](devTag = <<>>) => <>(SyncFailed /\ tagRead = <<>>))

SyncTimesOut_witness ==
  /\ SyncFailed /\ tagRead = <<>> /\ devTag = <<>> /\ elapsed >= 5000

PhaseEdges ==
  { <<"idle", "tag">>, <<"tag", "len">>, <<"tag", "failed">>,
    <<"len", "params">>, <<"params", "data">>, <<"params", "failed">>,
    <<"data", "send">>, <<"data", "crashed">>, <<"send", "recv">>,
    <<"send", "completed">>, <<"recv", "send">>, <<"recv", "failed">>,
    <<"recv", "crashed">>, <<"completed", "crashed">> }

\* C4: sync, length send, parameter receive and block transfer run in that
\* order, each at most once; the length is written only after sync
\* succeeded, block data only after the parameters were received, and after
\* the first failing phase nothing more is written and no phase is entered.
PhaseOrder ==
  /\ [](err # "none" => pc = "failed")
  /\ [](tx # <<>> => pc \notin {"idle", "tag", "len"} /\ err # "SyncTimeout")
  /\ [](Len(tx) > 2 => /\ pc \in {"recv", "send", "completed", "failed", "crashed"}
                       /\ err \notin {"SyncTimeout", "ParamTimeout"})
  /\ [][ /\ (pc' # pc => <<pc, pc'>> \in PhaseEdges)
         /\ (pc = "tag" /\ pc' = "len" => EndsWithTag(tagRead'))
         /\ (tx' # tx => \/ pc = "len" /\ tx = <<>> /\ Len(tx') = 2
                         \/ pc = "send" /\ Len(tx) >= 2)
         /\ (pc = "failed" => pc' = "failed" /\ tx' = tx) ]_vars

PhaseOrder_witness ==
  /\ pc = "failed" /\ err = "ParamTimeout" /\ Len(tx) = 2 /\ Len(rx) = 3

\* C5: a block whose reply is not complete within its window makes
\* sendMessageData fail and nothing of a later block is written; blocks are
\* written in index order, block b+1 only after the reply of block b is
\* complete.
BlockAbort ==
  /\ [](err = "BlockTimeout" =>
          /\ receivedBytes < N_bytes /\ elapsed >= 3000
          /\ block < C /\ Len(tx) = 2 + (block + 1) * K_bytes)
  /\ [][ /\ (pc = "recv" /\ pc' = "send" =>
                receivedBytes = N_bytes /\ block' = block + 1)
         /\ (pc = "recv" /\ pc' # pc /\ receivedBytes < N_bytes => pc' # "send")
         /\ (err = "BlockTimeout" => tx' = tx)
         /\ (pc = "send" /\ pc' = "recv" =>
                /\ Len(tx) = 2 + block * K_bytes
                /\ Len(tx') = 2 + (block + 1) * K_bytes
                /\ Len(replyLog) = block * N_bytes) ]_vars

BlockAbort_witness ==
  /\ pc = "failed" /\ err = "BlockTimeout"
  /\ block >= 1 /\ block + 1 < C /\ K_bytes > 0 /\ receivedBytes >= 1

\* number of blocks whose data has been written
blocksWritten ==
  IF pc = "recv" \/ (pc = "failed" /\ err = "BlockTimeout") THEN block + 1 ELSE block

\* C6: each block written consists of ceil(K/8) bytes; the byte at offset i
\* of block b is message[b*ceil(K/8)+i] if that index is below
\* ceil(actualBits/8) and 0 otherwise; the message buffer is never read at
\* or beyond ceil(actualBits/8).
BlockPadding ==
  pc \in {"send", "recv", "completed", "failed"} /\ Len(tx) >= 2 =>
    /\ Len(tx) = 2 + blocksWritten * CeilDiv(K, 8)
    /\ \A b \in 0..(blocksWritten - 1) : \A i \in 0..(CeilDiv(K, 8) - 1) :
         tx[2 + b * CeilDiv(K, 8) + i + 1] =
           IF b * CeilDiv(K, 8) + i < CeilDiv(message_bits, 8)
           THEN CellAt(message_buffer, b * CeilDiv(K, 8) + i) ELSE 0
    /\ \A d \in dataReads : d < CeilDiv(message_bits, 8)
    /\ (pc = "completed" => blocksWritten = C)

BlockPadding_witness ==
  /\ pc = "completed" /\ message_bits = 8 /\ K = 12
  /\ Len(tx) = 4 /\ tx[3] = 65 /\ tx[4] = 0

SizesExact ==
  aDone => /\ aC = CeilDiv(aBits, aK)
           /\ aSize = CeilDiv(aBits, aK) * CeilDiv(aN, 8)

\* C9: receiveParameters takes exactly 4 bytes on success, K = byte0*256 +
\* byte1, N = byte2*256 + byte3, later bytes stay queued; on timeout it takes
\* no byte and leaves K and N as they were.
ParamsFrame ==
  [][ /\ (pc = "params" /\ pc' = "data" =>
             /\ Len(rx) >= 4
             /\ rx' = SubSeq(rx, 5, Len(rx))
             /\ K' = rx[1] * 256 + rx[2]
             /\ N' = rx[3] * 256 + rx[4])
      /\ (pc = "params" /\ pc' = "failed" =>
             /\ rx' = rx /\ K' = K /\ N' = N
             /\ elapsed >= 3000) ]_vars

ParamsFrame_witness ==
  /\ pc = "data" /\ K = 3072 /\ N = 12 /\ Len(rx) = 1

\* C10: sendMessageLength writes exactly two bytes, high byte first, with
\* hi*256+lo equal to the bit count, for every 16-bit count, and returns true.
LengthBigEndian ==
  /\ [](pc = "params" =>
          /\ Len(tx) = 2
          /\ tx[1] \in 0..255 /\ tx[2] \in 0..255
          /\ tx[1] * 256 + tx[2] = manual_message_bits)
  /\ [][pc = "len" /\ pc' # pc => pc' = "params"]_vars

LengthBigEndian_witness ==
  /\ pc = "params" /\ manual_message_bits = 4660 /\ tx = <<18, 52>>

\* C11: block transfer is entered only with negotiated parameters K > 0 and
\* N > 0; a reply that decodes to K = 0 or N = 0 never leads to block
\* transfer or to a completed session.
ParamsValid ==
  pc \in {"data", "send", "recv", "completed"} => K > 0 /\ N > 0

\* the host program keeps running: a step it can take is taken
LiveSpec == Spec /\ WF_vars(Host)

\* C12: once a session has started its sync phase, whatever the device does,
\* the session eventually ends COMPLETED or FAILED.
SessionEnds == (pc = "tag") ~> (pc \in {"completed", "failed"})

\* C14: whenever waitForTag reads a byte that differs from the tag byte at the
\* cursor, the cursor is 0 after that step, also when the byte is DE; the
\* byte is not taken as the start of a new match.
MismatchResets ==
  [][pc = "tag" /\ tagRead' # tagRead /\ Head(rx) # TagSeq[tagIndex + 1]
       => tagIndex' = 0 /\ pc' = "tag"]_vars

MismatchResets_witness ==
  /\ pc = "tag" /\ tagRead = <<LDPC_TAG_0, LDPC_TAG_1, LDPC_TAG_0>> /\ tagIndex = 0

\* C16: the C blocks sent hold the first bitsForCalculation bits and no more
\* than needed: the number of data bytes written, C*ceil(K/8), is the
\* smallest multiple of ceil(K/8) that is >= ceil(bitsForCalculation/8).
ExactCoverage ==
  K > 0 /\ N > 0 /\ Len(tx) >= 2 =>
    LET per == CeilDiv(K, 8)
        need == per * CeilDiv(CeilDiv(bitsForCalculation, 8), per)
    IN /\ Len(tx) - 2 <= need
       /\ (pc = "completed" => Len(tx) - 2 = need)

\* C17: in every session and input mode the bit count written in the length
\* phase equals the bit count sendMessageData computes C from and the bit
\* count the completion report uses.
LengthConsistent ==
  pc \in {"send", "recv", "completed"} /\ K > 0 /\ N > 0 =>
    /\ tx[1] * 256 + tx[2] = bitsForCalculation
    /\ bitsForCalculation = handleEncoding_bitsUsedForCalculation

\* C13 (publication only on completion): the results that "show last results"
\* displays come from a session that COMPLETED.  Within one session: when
\* results are displayed (and not "No encoding results available yet"), the
\* session has completed.
PublishedOnCompletion ==
  shown # <<>> /\ shown[1].avail => pc = "completed"

\* C18 (reply freshness): the 4 bytes decoded as K and N were sent after the
\* host wrote the length field: none of them was already in the receive buffer
\* when sendMessageLength wrote.
FreshReply ==
  [][pc = "params" /\ pc' = "data" => staleRx = 0]_vars

\* C19 (redisplay size): after a COMPLETED session whose parameters are valid,
\* whose message is not empty and whose manual length, when the mode has one,
\* was supplied (> 0), the number
\* of encoded bytes that "show last results" displays equals the number the
\* completion report displayed.
RedisplaySize ==
  /\ pc = "completed" /\ reported # <<>> /\ shown # <<>>
  /\ K > 0 /\ N > 0 /\ message_bits > 0
  /\ mode = INPUT_HEX_MANUAL => manual_message_bits > 0
  => shown[1].totalEncodedBytes = reported[1]

\* C15 (encoded buffer bounds): each write of a reply byte goes to an index
\* block * ceil(N/8) + receivedBytes below the capacity of encoded_buffer.
WritesInBounds ==
  [][pc = "recv" /\ receivedBytes' = receivedBytes + 1
       => encodedIndex(block, receivedBytes) < ENCODED_CAPACITY]_vars
====
